---------------------------- MODULE Spec2Model ----------------------------
(***************************************************************************)
(* State-machine model of vk_mini_path_tracer's main.cpp: one offline      *)
(* compute pass.  The host thread runs main()'s statements in program      *)
(* order; the device runs the command buffers the host submitted to the    *)
(* single queue, concurrently with the host, until vkQueueWaitIdle joins   *)
(* the two.                                                                *)
(***************************************************************************)
EXTENDS Integers, Sequences, FiniteSets, TLC

(* ------------------------------ bounds --------------------------------- *)
\* Largest number of floats in the parsed position array.
MaxFloats == 3
\* Largest number of indices in the first shape's mesh.
MaxIndices == 3
\* Largest number of shapes the OBJ file may hold.
MaxShapes == 2
\* Largest number of BLAS, and of instances, given to the builder on its own.
MaxBlas == 3
MaxInstances == 3
\* How far from 0, and from 2^32 - 1, the image sizes given to the grid
\* computation on its own reach.
GridSpan == 17

VARIABLES
  pc,            \* index into MainBody of the next statement of main()
  fpc,           \* position inside the callee being run, "main" when in main()
  arg,           \* the command buffer the running helper works on
  status,        \* "running", "aborted" (NVVK_CHECK / assert), "crashed", "exited"
  ndebug,        \* build configuration: TRUE when assert() is compiled out
  asFeature,     \* asFeatures.accelerationStructure after context.init
  rayQuery,      \* rayQueryFeatures.rayQuery after context.init
  renderWidth,   \* RENDER_WIDTH, a 32-bit unsigned value as two 16-bit halves
  renderHeight,  \* RENDER_HEIGHT, likewise
  context,       \* nvvk::Context: "none", "live", "deinit"
  allocator,     \* nvvk::AllocatorDedicated: "none", "live", "deinit"
  cmdPool,       \* VkCommandPool cmdPool: "none", "live", "destroyed"
  ctx,           \* state of each command buffer
  cmds,          \* commands recorded into each command buffer
  queue,         \* command buffers submitted to m_queueGCT and not yet executed
  executed,      \* command buffers the device has finished executing
  buf,           \* the three nvvk::BufferDedicated objects
  staging,       \* the allocator's internal staging buffer of each upload
  stagingReleases, \* number of finalizeAndReleaseStaging calls made
  readerValid,   \* reader.Valid()
  nShapes,       \* reader.GetShapes().size()
  fileFloats,    \* reader.GetAttrib().GetVertices().size()
  fileIndices,   \* objShapes[0].mesh.indices.size() (when there is a shape 0)
  objVertices,   \* objVertices.size(), -1 before the copy
  objIndices,    \* objIndices.size(), -1 before the loop
  addr,          \* device addresses queried for the build inputs
  blases,        \* std::vector<BlasInput> blases
  instances,     \* std::vector<Instance> instances (the blasId of each)
  builder,       \* nvvk::RaytracingBuilderKHR: "none", "setup", "destroyed"
  job,           \* the builder's running internal job, "none" when idle
  blas,          \* state of each BLAS the builder owns
  tlas,          \* state of the builder's TLAS
  called,        \* builder calls entered so far
  returned,      \* builder calls that have returned
  lastError,     \* error reported by the builder, "none" when none
  container,     \* nvvk::DescriptorSetContainer: "none", "live", "deinit"
  bindings,      \* (slot, kind) pairs declared by addBinding
  layout,        \* which of layout / pool / pipeLayout are initialised
  writes,        \* std::array<VkWriteDescriptorSet, 4> writeDescriptorSets
  descSet,       \* what descriptor set 0 references, per slot
  shaderModule,  \* "none", "live", "destroyed"
  pipeline,      \* "none", "live", "destroyed"
  mapped,        \* buffers currently mapped by the host
  hostRead,      \* what the host read through the mapping, "none" before it reads
  uses           \* history: (buffer, use) pairs of every use of a buffer so far

ctl == <<pc, fpc, arg, status>>
cfg == <<ndebug, asFeature, rayQuery, renderWidth, renderHeight>>
dev == <<context, allocator, cmdPool>>
cmd == <<ctx, cmds, queue, executed>>
mem == <<buf, staging, stagingReleases>>
mesh == <<readerValid, nShapes, fileFloats, fileIndices, objVertices, objIndices>>
accel == <<addr, blases, instances, builder, job, blas, tlas, called, returned, lastError>>
desc == <<container, bindings, layout, writes, descSet>>
pipe == <<shaderModule, pipeline>>
host == <<mapped, hostRead, uses>>
vars == <<ctl, cfg, dev, cmd, mem, mesh, accel, desc, pipe, host>>

(* ------------------------------ names ---------------------------------- *)
\* The command buffers of main() and the ones the builder uses internally.
MainContexts == {"uploadCmdBuffer", "cmdBuffer"}
BuilderContexts == {"blasBuild", "blasCompact", "tlasBuild"}
Contexts == MainContexts \cup BuilderContexts

Buffers == {"buffer", "vertexBuffer", "indexBuffer"}
Uploaded == {"vertexBuffer", "indexBuffer"}

\* common.h
WORKGROUP_WIDTH == 16
WORKGROUP_HEIGHT == 8
BINDING_IMAGEDATA == 0
BINDING_TLAS == 1
BINDING_VERTICES == 2
BINDING_INDICES == 3

Slots == {BINDING_IMAGEDATA, BINDING_TLAS, BINDING_VERTICES, BINDING_INDICES}

(* --------------------------- sequence helpers -------------------------- *)
Range(s) == {s[i] : i \in 1..Len(s)}

IndexOf(s, x) == CHOOSE i \in 1..Len(s) : s[i] = x

Without(s, x) == SelectSeq(s, LAMBDA e : e # x)

\* s with statement x taken out and put back right before statement y.
MoveBefore(s, x, y) ==
  LET t == Without(s, x)
      k == IndexOf(t, y)
  IN SubSeq(t, 1, k - 1) \o <<x>> \o SubSeq(t, k, Len(t))

(* ------------------------- main()'s statements ------------------------- *)
\* The statements of main() in program order, each named by the line that
\* performs it.
MainStatements ==
  << "L68",  "L70",  "L74",  "L86",  "L91",  "L92",  "L93",  "L95",  "L102",
     "L109", "L115", "L122", "L123", "L125", "L126", "L134", "L135", "L161",
     "L166", "L167", "L178", "L181", "L186", "L187", "L188", "L189", "L190",
     "L193", "L196", "L198", "L206", "L212", "L217", "L222", "L223", "L229",
     "L243", "L250", "L253", "L257", "L260", "L268", "L276", "L279", "L280",
     "L281", "L283", "L284", "L285", "L286", "L287", "L288", "L289", "L290",
     "L291", "L292" >>

\* GetBufferDeviceAddress(vertexBuffer) hoisted above the upload's submit.
MainBody_AddressBeforeSubmit == MoveBefore(MainStatements, "L134", "L125")

\* finalizeAndReleaseStaging() called before the upload is submitted.
MainBody_ReleaseBeforeSubmit == MoveBefore(MainStatements, "L126", "L125")

\* buildBlas called after buildTlas instead of before it.
MainBody_TlasBeforeBlas == MoveBefore(MainStatements, "L167", "L186")

\* raytracingBuilder.destroy() placed before the dispatch is recorded.
MainBody_DestroyBeforeDispatch == MoveBefore(MainStatements, "L286", "L250")

\* allocator.destroy(vertexBuffer) placed before descriptorSetContainer.deinit().
MainBody_BufferBeforeContainer == MoveBefore(MainStatements, "L287", "L285")

\* allocator.destroy(buffer) hoisted above allocator.map(buffer).
MainBody_DestroyBeforeMap == MoveBefore(MainStatements, "L290", "L279")

\* vkUpdateDescriptorSets called before the last makeWrite.
MainBody_CommitBeforeLastWrite == MoveBefore(MainStatements, "L223", "L222")

\* vkDestroyCommandPool hoisted above the dispatch's submit-and-wait.
MainBody_PoolBeforeSubmit == MoveBefore(MainStatements, "L289", "L276")

\* The program the host runs.
MainBody == MainStatements

At(l) ==
  /\ status = "running"
  /\ fpc = "main"
  /\ pc <= Len(MainBody)
  /\ MainBody[pc] = l

Advance == pc' = pc + 1 /\ UNCHANGED <<fpc, arg, status>>

Abort == status' = "aborted" /\ UNCHANGED <<pc, fpc, arg>>

\* A statement that either goes on or ends the run.
Step(ok) == IF ok THEN Advance ELSE Abort

\* A VkResult as NVVK_CHECK sees it.
VkResults == {"VK_SUCCESS", "VK_ERROR"}

\* NVVK_CHECK(result): TRUE when the run goes on.
NVVK_CHECK(result) == result = "VK_SUCCESS"

\* assert(cond): aborts when cond is false, unless NDEBUG compiled it out.
AssertPasses(cond) == cond \/ ndebug

(* ------------------------ 32-bit unsigned values ----------------------- *)
\* TLC's integers stop short of 2^32, so a uint32_t is kept as its two 16-bit
\* halves <<high, low>>.
U32(n) == <<n \div 65536, n % 65536>>

\* The number a uint32_t below 2^31 stands for.
Value(u) == u[1] * 65536 + u[2]

\* u + n in uint32_t arithmetic (n may be negative): the sum wraps modulo 2^32.
U32Add(u, n) ==
  LET s == u[2] + n
  IN <<(u[1] + (s \div 65536)) % 65536, s % 65536>>

\* u / t in uint32_t arithmetic, by long division over the halves (0 < t < 2^15).
U32Div(u, t) ==
  LET r == u[1] % t
  IN <<u[1] \div t, (r * 65536 + u[2]) \div t>>

\* The image sizes RENDER_WIDTH and RENDER_HEIGHT are built with.
RenderWidths == {800, 801}
RenderHeights == {600}

(* ------------------------------- Init ---------------------------------- *)
\* A buffer object: its state, whether its memory is host-visible, what its
\* memory holds, its size in bytes, and the map / unmap calls made on it.
NoBuffer == [state |-> "none", hostVisible |-> FALSE, data |-> "undefined",
             size |-> 0, maps |-> 0, unmaps |-> 0]

\* An element of writeDescriptorSets main() has not filled in yet.
NoWrite == [binding |-> -1, resource |-> "none", kind |-> "none",
            offset |-> 0, range |-> 0]

\* The state before main() runs, but for the image size the build fixes.
InitProgram ==
  /\ pc = 1 /\ fpc = "main" /\ arg = "none" /\ status = "running"
  /\ ndebug \in BOOLEAN
  /\ asFeature = FALSE /\ rayQuery = FALSE
  /\ context = "none" /\ allocator = "none" /\ cmdPool = "none"
  /\ ctx = [c \in Contexts |-> "none"]
  /\ cmds = [c \in Contexts |-> <<>>]
  /\ queue = <<>>
  /\ executed = {}
  /\ buf = [b \in Buffers |-> NoBuffer]
  /\ staging = [b \in Uploaded |-> "none"]
  /\ stagingReleases = 0
  /\ readerValid = FALSE /\ nShapes = 0 /\ fileFloats = 0 /\ fileIndices = 0
  /\ objVertices = -1 /\ objIndices = -1
  /\ addr = {}
  /\ blases = <<>> /\ instances = <<>>
  /\ builder = "none" /\ job = "none"
  /\ blas = <<>> /\ tlas = "none"
  /\ called = {} /\ returned = {} /\ lastError = "none"
  /\ container = "none" /\ bindings = {} /\ layout = {}
  /\ writes = [i \in 0..3 |-> NoWrite]
  /\ descSet = [s \in Slots |-> "unbound"]
  /\ shaderModule = "none" /\ pipeline = "none"
  /\ mapped = {} /\ hostRead = "none" /\ uses = {}

Init ==
  /\ InitProgram
  /\ renderWidth \in {U32(w) : w \in RenderWidths}
  /\ renderHeight \in {U32(h) : h \in RenderHeights}


(* ------------------------- device setup, mesh -------------------------- *)
\* context.init(deviceInfo): creates the device and fills in the two feature
\* structs chained through addDeviceExtension.
ContextInit ==
  /\ At("L68")
  /\ context' = "live"
  /\ asFeature' \in BOOLEAN
  /\ rayQuery' \in BOOLEAN
  /\ Advance
  /\ UNCHANGED <<ndebug, renderWidth, renderHeight, allocator, cmdPool, cmd, mem, mesh,
                 accel, desc, pipe, host>>

\* assert(asFeatures.accelerationStructure == VK_TRUE && rayQueryFeatures.rayQuery == VK_TRUE)
AssertCapabilities ==
  /\ At("L70")
  /\ Step(AssertPasses(asFeature /\ rayQuery))
  /\ UNCHANGED <<cfg, dev, cmd, mem, mesh, accel, desc, pipe, host>>

\* allocator.init(context, context.m_physicalDevice)
AllocatorInit ==
  /\ At("L74")
  /\ allocator' = "live"
  /\ Advance
  /\ UNCHANGED <<cfg, context, cmdPool, cmd, mem, mesh, accel, desc, pipe, host>>

\* sizeof(float), and sizeof(uint32_t)
SizeofFloat == 4
SizeofUint32 == 4

\* One float for each pixel, the other two channels forgotten.
BufferSizeBytes_OneChannel == Value(renderWidth) * Value(renderHeight) * SizeofFloat

\* VkDeviceSize bufferSizeBytes = RENDER_WIDTH * RENDER_HEIGHT * 3 * sizeof(float)
BufferSizeBytes == Value(renderWidth) * Value(renderHeight) * 3 * SizeofFloat

\* buffer = allocator.createBuffer(bufferCreateInfo, HOST_VISIBLE | HOST_CACHED | HOST_COHERENT)
CreateOutputBuffer ==
  /\ At("L86")
  /\ buf' = [buf EXCEPT !["buffer"] =
               [NoBuffer EXCEPT !.state = "live", !.hostVisible = TRUE,
                                !.size = BufferSizeBytes]]
  /\ Advance
  /\ UNCHANGED <<cfg, dev, cmd, staging, stagingReleases, mesh, accel, desc, pipe, host>>

\* reader.ParseFromFile(...): the file decides what the reader holds.
ParseFromFile ==
  /\ At("L91")
  /\ \E v \in BOOLEAN, n \in 0..MaxShapes, f \in 0..MaxFloats, i \in 0..MaxIndices :
       /\ (~v) => (n = 0 /\ f = 0)
       /\ (n = 0) => (i = 0)
       /\ readerValid' = v
       /\ nShapes' = n
       /\ fileFloats' = f
       /\ fileIndices' = i
  /\ Advance
  /\ UNCHANGED <<cfg, dev, cmd, mem, objVertices, objIndices, accel, desc, pipe, host>>

\* assert(reader.Valid())
AssertReaderValid ==
  /\ At("L92")
  /\ Step(AssertPasses(readerValid))
  /\ UNCHANGED <<cfg, dev, cmd, mem, mesh, accel, desc, pipe, host>>

\* const std::vector<real_t> objVertices = reader.GetAttrib().GetVertices()
CopyVertices ==
  /\ At("L93")
  /\ objVertices' = fileFloats
  /\ Advance
  /\ UNCHANGED <<cfg, dev, cmd, mem, readerValid, nShapes, fileFloats, fileIndices,
                 objIndices, accel, desc, pipe, host>>

\* assert(objShapes.size() == 1)
AssertOneShape ==
  /\ At("L95")
  /\ Step(AssertPasses(nShapes = 1))
  /\ UNCHANGED <<cfg, dev, cmd, mem, mesh, accel, desc, pipe, host>>

\* objShape = objShapes[0]; for (index : objShape.mesh.indices) objIndices.push_back(...)
\* With no shape at all objShapes[0] is out of bounds: the run may crash or
\* read any number of indices.
CollectIndices ==
  /\ At("L102")
  /\ IF nShapes >= 1
       THEN objIndices' = fileIndices /\ Advance
       ELSE \E n \in -1..MaxIndices :
              IF n = -1
                THEN /\ status' = "crashed"
                     /\ UNCHANGED <<pc, fpc, arg, objIndices>>
                ELSE objIndices' = n /\ Advance
  /\ UNCHANGED <<cfg, dev, cmd, mem, readerValid, nShapes, fileFloats, fileIndices,
                 objVertices, accel, desc, pipe, host>>

\* NVVK_CHECK(vkCreateCommandPool(context, &cmdPoolCreateInfo, nullptr, &cmdPool))
CreateCommandPool ==
  /\ At("L109")
  /\ \E r \in VkResults :
       /\ cmdPool' = IF r = "VK_SUCCESS" THEN "live" ELSE cmdPool
       /\ Step(NVVK_CHECK(r))
  /\ UNCHANGED <<cfg, context, allocator, cmd, mem, mesh, accel, desc, pipe, host>>

(* ------------------- one-time command buffer helpers ------------------- *)
\* The statement of main() that begins, and the one that submits, each of
\* main()'s command buffers.
BeginSite(c) == IF c = "uploadCmdBuffer" THEN "L115" ELSE "L250"
SubmitSite(c) == IF c = "uploadCmdBuffer" THEN "L125" ELSE "L276"

InCallee(l) == status = "running" /\ fpc = l

Return == fpc' = "main" /\ arg' = "none" /\ pc' = pc + 1 /\ UNCHANGED status

Goto(l) == fpc' = l /\ UNCHANGED <<pc, arg, status>>

\* c = AllocateAndBeginOneTimeCommandBuffer(context, cmdPool)
CallAllocateAndBegin ==
  /\ \E c \in MainContexts :
       /\ At(BeginSite(c))
       /\ arg' = c
  /\ fpc' = "L26"
  /\ UNCHANGED <<pc, status, cfg, dev, cmd, mem, mesh, accel, desc, pipe, host>>

\* NVVK_CHECK(vkAllocateCommandBuffers(device, &cmdAllocInfo, &cmdBuffer))
VkAllocateCommandBuffers ==
  /\ InCallee("L26")
  /\ \E r \in VkResults :
       IF NVVK_CHECK(r)
         THEN ctx' = [ctx EXCEPT ![arg] = "allocated"] /\ Goto("L30")
         ELSE Abort /\ UNCHANGED ctx
  /\ UNCHANGED <<cfg, dev, cmds, queue, executed, mem, mesh, accel, desc, pipe, host>>

\* NVVK_CHECK(vkBeginCommandBuffer(cmdBuffer, &beginInfo)); return cmdBuffer
VkBeginCommandBuffer ==
  /\ InCallee("L30")
  /\ \E r \in VkResults :
       IF NVVK_CHECK(r)
         THEN ctx' = [ctx EXCEPT ![arg] = "recording"] /\ Return
         ELSE Abort /\ UNCHANGED ctx
  /\ UNCHANGED <<cfg, dev, cmds, queue, executed, mem, mesh, accel, desc, pipe, host>>

\* EndSubmitWaitAndFreeCommandBuffer(context, context.m_queueGCT, cmdPool, c)
CallEndSubmitWaitAndFree ==
  /\ \E c \in MainContexts :
       /\ At(SubmitSite(c))
       /\ arg' = c
  /\ fpc' = "L37"
  /\ UNCHANGED <<pc, status, cfg, dev, cmd, mem, mesh, accel, desc, pipe, host>>

\* The helper going straight to the submit, vkEndCommandBuffer left out.
VkEndCommandBuffer_Skipped ==
  /\ InCallee("L37")
  /\ Goto("L42")
  /\ UNCHANGED <<cfg, dev, cmd, mem, mesh, accel, desc, pipe, host>>

\* NVVK_CHECK(vkEndCommandBuffer(cmdBuffer))
VkEndCommandBuffer ==
  /\ InCallee("L37")
  /\ \E r \in VkResults :
       IF NVVK_CHECK(r)
         THEN ctx' = [ctx EXCEPT ![arg] = "executable"] /\ Goto("L42")
         ELSE Abort /\ UNCHANGED ctx
  /\ UNCHANGED <<cfg, dev, cmds, queue, executed, mem, mesh, accel, desc, pipe, host>>

\* NVVK_CHECK(vkQueueSubmit(queue, 1, &submitInfo, VK_NULL_HANDLE))
VkQueueSubmit ==
  /\ InCallee("L42")
  /\ \E r \in VkResults :
       IF NVVK_CHECK(r)
         THEN /\ ctx' = [ctx EXCEPT ![arg] = "pending"]
              /\ queue' = Append(queue, arg)
              /\ Goto("L43")
         ELSE Abort /\ UNCHANGED <<ctx, queue>>
  /\ UNCHANGED <<cfg, dev, cmds, executed, mem, mesh, accel, desc, pipe, host>>

\* vkQueueWaitIdle returning without the queue having drained.
VkQueueWaitIdle_NoBlock ==
  /\ InCallee("L43")
  /\ Goto("L44")
  /\ UNCHANGED <<cfg, dev, cmd, mem, mesh, accel, desc, pipe, host>>

\* NVVK_CHECK(vkQueueWaitIdle(queue)): success is returned only once the
\* device has finished everything submitted to the queue.
VkQueueWaitIdle ==
  /\ InCallee("L43")
  /\ \E r \in VkResults :
       IF NVVK_CHECK(r)
         THEN queue = <<>> /\ Goto("L44")
         ELSE Abort
  /\ UNCHANGED <<cfg, dev, cmd, mem, mesh, accel, desc, pipe, host>>

\* vkFreeCommandBuffers left out of the helper.
VkFreeCommandBuffers_Leak ==
  /\ InCallee("L44")
  /\ Return
  /\ UNCHANGED <<cfg, dev, cmd, mem, mesh, accel, desc, pipe, host>>

\* vkFreeCommandBuffers(device, cmdPool, 1, &cmdBuffer); return
VkFreeCommandBuffers ==
  /\ InCallee("L44")
  /\ ctx' = [ctx EXCEPT ![arg] = "freed"]
  /\ Return
  /\ UNCHANGED <<cfg, dev, cmds, queue, executed, mem, mesh, accel, desc, pipe, host>>

(* ------------------------------ recording ------------------------------ *)
Cmd(op, a, b, c, d) == [op |-> op, a |-> a, b |-> b, c |-> c, d |-> d]

Record(c, command) == cmds' = [cmds EXCEPT ![c] = Append(@, command)]

(* ---------------------------- staged upload ---------------------------- *)
UploadSite(b) == IF b = "vertexBuffer" THEN "L122" ELSE "L123"

\* The host array each upload copies, as its element count, and the size of
\* one element: objVertices holds real_t (float), objIndices uint32_t.
HostElements(b) == IF b = "vertexBuffer" THEN objVertices ELSE objIndices
ElementSize(b) == IF b = "vertexBuffer" THEN SizeofFloat ELSE SizeofUint32

\* The size the allocator gives a buffer created from a host array.
StagedSize(b) == HostElements(b) * ElementSize(b)

\* b = allocator.createBuffer(uploadCmdBuffer, hostData, usage): a device-local
\* buffer, an internal staging buffer holding the host data, and the copy
\* from the one to the other recorded into uploadCmdBuffer.
CreateStagedBuffer ==
  /\ \E b \in Uploaded :
       /\ At(UploadSite(b))
       /\ buf' = [buf EXCEPT ![b] =
                    [NoBuffer EXCEPT !.state = "live", !.size = StagedSize(b)]]
       /\ staging' = [staging EXCEPT ![b] = "live"]
       /\ Record("uploadCmdBuffer", Cmd("CopyBuffer", b, "staging", "", ""))
  /\ Advance
  /\ UNCHANGED <<cfg, dev, ctx, queue, executed, stagingReleases, mesh, accel,
                 desc, pipe, host>>

\* allocator.finalizeAndReleaseStaging()
FinalizeAndReleaseStaging ==
  /\ At("L126")
  /\ staging' = [b \in Uploaded |-> IF staging[b] = "live" THEN "released" ELSE staging[b]]
  /\ stagingReleases' = stagingReleases + 1
  /\ Advance
  /\ UNCHANGED <<cfg, dev, cmd, buf, mesh, accel, desc, pipe, host>>


(* --------------------- acceleration structure input -------------------- *)
AddressSite(b) == IF b = "vertexBuffer" THEN "L134" ELSE "L135"

\* GetBufferDeviceAddress(context, b.buffer)
GetBufferDeviceAddress ==
  /\ \E b \in Uploaded :
       /\ At(AddressSite(b))
       /\ addr' = addr \cup {b}
       /\ uses' = uses \cup {<<b, "address">>}
  /\ Advance
  /\ UNCHANGED <<cfg, dev, cmd, mem, mesh, blases, instances, builder, job, blas,
                 tlas, called, returned, lastError, desc, pipe, mapped, hostRead>>

\* static_cast<uint32_t>(n) of a size_t value n (size_t arithmetic wraps first),
\* as its two 16-bit halves <<high, low>>; n is within 16 bits of zero.
ToUint32(n) ==
  IF n >= 0 THEN <<n \div 65536, n % 65536>> ELSE <<65535, 65536 + n>>

\* The BlasInput main() describes: triangles.vertexStride, triangles.maxVertex
\* and offsetInfo.primitiveCount.
BlasInput ==
  [ vertexData     |-> "vertexBuffer",
    indexData      |-> "indexBuffer",
    vertexStride   |-> 3 * SizeofFloat,
    maxVertex      |-> ToUint32(objVertices - 1),
    primitiveCount |-> ToUint32(objIndices \div 3) ]

\* blases.push_back(blas)
DescribeBlas ==
  /\ At("L161")
  /\ blases' = Append(blases, BlasInput)
  /\ Advance
  /\ UNCHANGED <<cfg, dev, cmd, mem, mesh, addr, instances, builder, job, blas,
                 tlas, called, returned, lastError, desc, pipe, host>>

\* raytracingBuilder.setup(context, &allocator, context.m_queueGCT)
BuilderSetup ==
  /\ At("L166")
  /\ builder' = "setup"
  /\ Advance
  /\ UNCHANGED <<cfg, dev, cmd, mem, mesh, addr, blases, instances, job, blas,
                 tlas, called, returned, lastError, desc, pipe, host>>

\* The build flags main() passes to buildBlas and to buildTlas.
BlasBuildFlags == {"PREFER_FAST_TRACE", "ALLOW_COMPACTION"}
TlasBuildFlags == {"PREFER_FAST_TRACE"}

\* instance.blasId = 0
InstanceBlasId == 0

\* raytracingBuilder.buildBlas(blases, flags): the call enters the builder.
CallBuildBlas ==
  /\ At("L167")
  /\ called' = called \cup {"buildBlas"}
  /\ blas' = [i \in 1..Len(blases) |-> "created"]
  /\ job' = "blasBuild"
  /\ fpc' = "B.alloc"
  /\ UNCHANGED <<pc, arg, status, cfg, dev, cmd, mem, mesh, addr, blases, instances,
                 builder, tlas, returned, lastError, desc, pipe, host>>

\* instances.push_back(instance)
MakeInstance ==
  /\ At("L178")
  /\ instances' = Append(instances, InstanceBlasId)
  /\ Advance
  /\ UNCHANGED <<cfg, dev, cmd, mem, mesh, addr, blases, builder, job, blas,
                 tlas, called, returned, lastError, desc, pipe, host>>

\* raytracingBuilder.buildTlas(instances, flags): the call enters the builder.
CallBuildTlas ==
  /\ At("L181")
  /\ called' = called \cup {"buildTlas"}
  /\ job' = "tlasBuild"
  /\ fpc' = "T.check"
  /\ UNCHANGED <<pc, arg, status, cfg, dev, cmd, mem, mesh, addr, blases, instances,
                 builder, blas, tlas, returned, lastError, desc, pipe, host>>

(* ------------------------ the builder's internals ---------------------- *)
\* A BLAS the device has finished building.
Built(s) == s \in {"built", "compacted"}

\* The range check off by one: index Len(bl) passes.
InstancesValid_OffByOne(insts, bl) ==
  \A i \in 1..Len(insts) :
    /\ insts[i] \in 0..Len(bl)
    /\ (insts[i] < Len(bl)) => Built(bl[insts[i] + 1])

\* Every instance refers to a BLAS that exists and is already built.
InstancesValid(insts, bl) ==
  \A i \in 1..Len(insts) :
    /\ insts[i] \in 0..(Len(bl) - 1)
    /\ Built(bl[insts[i] + 1])

\* buildTopLevel's validation of the instance list.
BuilderValidate ==
  /\ InCallee("T.check")
  /\ IF InstancesValid(instances, blas)
       THEN /\ tlas' = "created"
            /\ Goto("B.alloc")
            /\ UNCHANGED <<job, lastError>>
       ELSE /\ lastError' = "DanglingInstanceReference"
            /\ job' = "none"
            /\ Abort
            /\ UNCHANGED tlas
  /\ UNCHANGED <<cfg, dev, cmd, mem, mesh, addr, blases, instances, builder, blas,
                 called, returned, desc, pipe, host>>

BuilderFrame == <<cfg, dev, mem, mesh, addr, blases, instances, builder, blas, tlas,
                  called, lastError, desc, pipe, host>>

\* The builder allocates a fresh command buffer for its job ...
BuilderAllocate ==
  /\ InCallee("B.alloc")
  /\ ctx' = [ctx EXCEPT ![job] = "allocated"]
  /\ Goto("B.begin")
  /\ UNCHANGED <<cmds, queue, executed, job, returned, BuilderFrame>>

\* ... begins recording ...
BuilderBegin ==
  /\ InCallee("B.begin")
  /\ ctx' = [ctx EXCEPT ![job] = "recording"]
  /\ Goto("B.record")
  /\ UNCHANGED <<cmds, queue, executed, job, returned, BuilderFrame>>

\* The command each builder job records.
JobCommand(j) ==
  CASE j = "blasBuild"   -> "BuildBlas"
    [] j = "blasCompact" -> "CompactBlas"
    [] OTHER             -> "BuildTlas"

\* ... records the build (or the compacting copy) ...
BuilderRecord ==
  /\ InCallee("B.record")
  /\ Record(job, Cmd(JobCommand(job), "", "", "", ""))
  /\ Goto("B.end")
  /\ UNCHANGED <<ctx, queue, executed, job, returned, BuilderFrame>>

\* ... ends recording ...
BuilderEnd ==
  /\ InCallee("B.end")
  /\ ctx' = [ctx EXCEPT ![job] = "executable"]
  /\ Goto("B.submit")
  /\ UNCHANGED <<cmds, queue, executed, job, returned, BuilderFrame>>

\* ... submits to the queue ...
BuilderSubmit ==
  /\ InCallee("B.submit")
  /\ ctx' = [ctx EXCEPT ![job] = "pending"]
  /\ queue' = Append(queue, job)
  /\ Goto("B.wait")
  /\ UNCHANGED <<cmds, executed, job, returned, BuilderFrame>>

\* ... blocks until the device has finished ...
BuilderWait ==
  /\ InCallee("B.wait")
  /\ queue = <<>>
  /\ Goto("B.free")
  /\ UNCHANGED <<cmd, job, returned, BuilderFrame>>

\* The builder call each job belongs to.
JobCall(j) == IF j = "tlasBuild" THEN "buildTlas" ELSE "buildBlas"

\* ... and releases the command buffer; buildBlas then goes on to the
\* compaction round-trip when AllowCompaction was asked for, and otherwise
\* the call returns to main().
BuilderFree ==
  /\ InCallee("B.free")
  /\ ctx' = [ctx EXCEPT ![job] = "freed"]
  /\ IF job = "blasBuild" /\ "ALLOW_COMPACTION" \in BlasBuildFlags
       THEN /\ job' = "blasCompact"
            /\ Goto("B.alloc")
            /\ UNCHANGED returned
       ELSE /\ job' = "none"
            /\ returned' = returned \cup {JobCall(job)}
            /\ Return
  /\ UNCHANGED <<cmds, queue, executed, BuilderFrame>>


(* ------------------------- descriptor set container -------------------- *)
\* nvvk::DescriptorSetContainer descriptorSetContainer(context)
ContainerConstruct ==
  /\ At("L186")
  /\ container' = "live"
  /\ Advance
  /\ UNCHANGED <<cfg, dev, cmd, mem, mesh, accel, bindings, layout, writes, descSet,
                 pipe, host>>

\* Every binding declared a storage buffer, the TLAS binding included.
DeclaredKind_AllStorageBuffers(s) == "STORAGE_BUFFER"

\* The descriptor type main() declares for each binding.
DeclaredKind(s) ==
  IF s = BINDING_TLAS THEN "ACCELERATION_STRUCTURE" ELSE "STORAGE_BUFFER"

BindingSite(s) ==
  CASE s = BINDING_IMAGEDATA -> "L187"
    [] s = BINDING_TLAS      -> "L188"
    [] s = BINDING_VERTICES  -> "L189"
    [] OTHER                 -> "L190"

\* descriptorSetContainer.addBinding(slot, kind, 1, VK_SHADER_STAGE_COMPUTE_BIT)
AddBinding ==
  /\ \E s \in Slots :
       /\ At(BindingSite(s))
       /\ bindings' = bindings \cup {<<s, DeclaredKind(s)>>}
  /\ Advance
  /\ UNCHANGED <<cfg, dev, cmd, mem, mesh, accel, container, layout, writes, descSet,
                 pipe, host>>

InitSite(part) ==
  CASE part = "layout" -> "L193"
    [] part = "pool"   -> "L196"
    [] OTHER           -> "L198"

\* descriptorSetContainer.initLayout() / initPool(1) / initPipeLayout()
InitContainerPart ==
  /\ \E part \in {"layout", "pool", "pipeLayout"} :
       /\ At(InitSite(part))
       /\ layout' = layout \cup {part}
  /\ Advance
  /\ UNCHANGED <<cfg, dev, cmd, mem, mesh, accel, container, bindings, writes, descSet,
                 pipe, host>>

\* The resource main() puts in each binding's write, and that resource's kind.
WriteResource(s) ==
  CASE s = BINDING_IMAGEDATA -> "buffer"
    [] s = BINDING_TLAS      -> "tlas"
    [] s = BINDING_VERTICES  -> "vertexBuffer"
    [] OTHER                 -> "indexBuffer"

ResourceKind(r) == IF r = "tlas" THEN "ACCELERATION_STRUCTURE" ELSE "STORAGE_BUFFER"

WriteSite(s) ==
  CASE s = BINDING_IMAGEDATA -> "L206"
    [] s = BINDING_TLAS      -> "L212"
    [] s = BINDING_VERTICES  -> "L217"
    [] OTHER                 -> "L222"

\* VK_WHOLE_SIZE (~0ULL): the range from the offset to the end of the buffer.
VK_WHOLE_SIZE == -1

\* The range main() puts in each buffer binding's VkDescriptorBufferInfo; its
\* offset is left at 0 by the {} initialisation.
WriteRange(s) == IF s = BINDING_IMAGEDATA THEN BufferSizeBytes ELSE VK_WHOLE_SIZE
WriteOffset(s) == 0

\* What the container answers to a write of resource r into binding s: the
\* write when r's kind is the kind declared for s, SlotKindMismatch otherwise.
BindResult(s, r) ==
  IF <<s, ResourceKind(r)>> \in bindings THEN "write" ELSE "SlotKindMismatch"

\* writeDescriptorSets[s] = descriptorSetContainer.makeWrite(0, s, &info)
MakeWrite ==
  /\ \E s \in Slots :
       /\ At(WriteSite(s))
       /\ IF BindResult(s, WriteResource(s)) = "write"
            THEN /\ writes' = [writes EXCEPT ![s] =
                                 [binding  |-> s,
                                  resource |-> WriteResource(s),
                                  kind     |-> ResourceKind(WriteResource(s)),
                                  offset   |-> WriteOffset(s),
                                  range    |-> IF WriteResource(s) \in Buffers
                                                 THEN WriteRange(s) ELSE 0]]
                 /\ uses' = IF WriteResource(s) \in Buffers
                              THEN uses \cup {<<WriteResource(s), "descriptor">>}
                              ELSE uses
                 /\ Advance
                 /\ UNCHANGED lastError
            ELSE /\ lastError' = "SlotKindMismatch"
                 /\ Abort
                 /\ UNCHANGED <<writes, uses>>
  /\ UNCHANGED <<cfg, dev, cmd, mem, mesh, addr, blases, instances, builder, job, blas,
                 tlas, called, returned, container, bindings, layout, descSet,
                 pipe, mapped, hostRead>>

\* vkUpdateDescriptorSets(context, 4, writeDescriptorSets.data(), 0, nullptr):
\* one call applies all four writes.
UpdateDescriptorSets ==
  /\ At("L223")
  /\ descSet' = [s \in Slots |->
                   IF \E i \in 0..3 : writes[i].binding = s
                     THEN writes[CHOOSE i \in 0..3 : writes[i].binding = s].resource
                     ELSE descSet[s]]
  /\ Advance
  /\ UNCHANGED <<cfg, dev, cmd, mem, mesh, accel, container, bindings, layout, writes,
                 pipe, host>>

(* ------------------------------- pipeline ------------------------------ *)
\* rayTraceModule = nvvk::createShaderModule(context, nvh::loadFile(...))
CreateShaderModule ==
  /\ At("L229")
  /\ shaderModule' = "live"
  /\ Advance
  /\ UNCHANGED <<cfg, dev, cmd, mem, mesh, accel, desc, pipeline, host>>

\* NVVK_CHECK(vkCreateComputePipelines(context, ..., &computePipeline))
CreateComputePipeline ==
  /\ At("L243")
  /\ \E r \in VkResults :
       /\ pipeline' = IF r = "VK_SUCCESS" THEN "live" ELSE pipeline
       /\ Step(NVVK_CHECK(r))
  /\ UNCHANGED <<cfg, dev, cmd, mem, mesh, accel, desc, shaderModule, host>>

(* ------------------------------- dispatch ------------------------------ *)
RecordFrame == <<cfg, dev, ctx, queue, executed, mem, mesh, accel, desc, pipe,
                 mapped, hostRead>>

\* vkCmdBindPipeline(cmdBuffer, VK_PIPELINE_BIND_POINT_COMPUTE, computePipeline)
CmdBindPipeline ==
  /\ At("L253")
  /\ Record("cmdBuffer", Cmd("BindPipeline", "computePipeline", "", "", ""))
  /\ Advance
  /\ UNCHANGED <<uses, RecordFrame>>

\* vkCmdBindDescriptorSets(cmdBuffer, ..., 0, 1, &descriptorSet, 0, nullptr)
CmdBindDescriptorSets ==
  /\ At("L257")
  /\ Record("cmdBuffer", Cmd("BindDescriptorSets", "set0", "", "", ""))
  /\ Advance
  /\ UNCHANGED <<uses, RecordFrame>>

\* The buffers descriptor set 0 references.
BoundBuffers == {descSet[s] : s \in Slots} \cap Buffers

\* Plain division: the workgroups that fit, the partial one at the edge dropped.
GroupCount_Floor(n, tile) == U32Div(n, tile)

\* (uint32_t(n) + tile - 1) / tile, every step in uint32_t arithmetic.
GroupCount(n, tile) == U32Div(U32Add(U32Add(n, tile), -1), tile)

\* The dispatch of an image of w x h pixels in workgroups of tw x th threads:
\* a groupCountX, b groupCountY, c groupCountZ; d notes the workgroup size the
\* counts were computed for.
DispatchCommand(w, h, tw, th) ==
  Cmd("Dispatch", GroupCount(w, tw), GroupCount(h, th), 1, <<tw, th>>)

\* vkCmdDispatch(cmdBuffer, groupsX, groupsY, 1)
CmdDispatch ==
  /\ At("L260")
  /\ Record("cmdBuffer",
            DispatchCommand(renderWidth, renderHeight, WORKGROUP_WIDTH, WORKGROUP_HEIGHT))
  /\ uses' = uses \cup {<<b, "dispatch">> : b \in BoundBuffers}
  /\ Advance
  /\ UNCHANGED RecordFrame

\* A barrier left with the transfer-write source mask of a vkCmdFillBuffer.
MemoryBarrier_TransferWrite ==
  Cmd("PipelineBarrier", "COMPUTE_SHADER", "HOST", "TRANSFER_WRITE", "HOST_READ")

\* The VkMemoryBarrier and stage masks main() passes to vkCmdPipelineBarrier:
\* a srcStage, b dstStage, c srcAccessMask, d dstAccessMask.
MemoryBarrier ==
  Cmd("PipelineBarrier", "COMPUTE_SHADER", "HOST", "SHADER_WRITE", "HOST_READ")

\* vkCmdPipelineBarrier(cmdBuffer, COMPUTE_SHADER, HOST, 0, 1, &memoryBarrier, ...)
CmdPipelineBarrier ==
  /\ At("L268")
  /\ Record("cmdBuffer", MemoryBarrier)
  /\ Advance
  /\ UNCHANGED <<uses, RecordFrame>>

(* ------------------------------- readback ------------------------------ *)
\* A map of the vertex buffer, whose memory is device-local.
MapTarget_DeviceLocal == "vertexBuffer"

\* The buffer main() maps, reads through the mapping and unmaps.
MapTarget == "buffer"

\* What the allocator's map gives for a buffer: a host pointer when the
\* buffer's memory is host-visible, InvalidAccess otherwise.
MapResult(b) == IF b.hostVisible THEN "pointer" ELSE "InvalidAccess"

\* void* data = allocator.map(buffer)
MapOutput ==
  /\ At("L279")
  /\ uses' = uses \cup {<<MapTarget, "map">>}
  /\ IF MapResult(buf[MapTarget]) = "pointer"
       THEN /\ mapped' = mapped \cup {MapTarget}
            /\ buf' = [buf EXCEPT ![MapTarget].maps = @ + 1]
            /\ Advance
            /\ UNCHANGED lastError
       ELSE /\ lastError' = "InvalidAccess"
            /\ Abort
            /\ UNCHANGED <<mapped, buf>>
  /\ UNCHANGED <<cfg, dev, cmd, staging, stagingReleases, mesh, addr, blases, instances,
                 builder, job, blas, tlas, called, returned, desc, pipe, hostRead>>

\* stbi_write_hdr("out.hdr", RENDER_WIDTH, RENDER_HEIGHT, 3, data): the host
\* reads the whole buffer through the mapping.
WriteHdr ==
  /\ At("L280")
  /\ hostRead' = IF MapTarget \in mapped THEN buf[MapTarget].data ELSE "unmapped"
  /\ Advance
  /\ UNCHANGED <<cfg, dev, cmd, mem, mesh, accel, desc, pipe, mapped, uses>>

\* allocator.unmap(buffer)
UnmapOutput ==
  /\ At("L281")
  /\ mapped' = mapped \ {MapTarget}
  /\ buf' = [buf EXCEPT ![MapTarget].unmaps = @ + 1]
  /\ Advance
  /\ UNCHANGED <<cfg, dev, cmd, staging, stagingReleases, mesh, accel, desc, pipe,
                 hostRead, uses>>


(* ------------------------------- teardown ------------------------------ *)
\* The state a release call leaves an object in: released when the object was
\* live, misused (a double release, or the release of nothing) otherwise.
Release(s, done) == IF s = "live" THEN done ELSE "misused"

\* vkDestroyPipeline(context, computePipeline, nullptr)
DestroyPipeline ==
  /\ At("L283")
  /\ pipeline' = Release(pipeline, "destroyed")
  /\ Advance
  /\ UNCHANGED <<cfg, dev, cmd, mem, mesh, accel, desc, shaderModule, host>>

\* vkDestroyShaderModule(context, rayTraceModule, nullptr)
DestroyShaderModule ==
  /\ At("L284")
  /\ shaderModule' = Release(shaderModule, "destroyed")
  /\ Advance
  /\ UNCHANGED <<cfg, dev, cmd, mem, mesh, accel, desc, pipeline, host>>

\* descriptorSetContainer.deinit(): the pool, and with it descriptor set 0
\* and every reference it held, is gone.
ContainerDeinit ==
  /\ At("L285")
  /\ container' = Release(container, "deinit")
  /\ descSet' = [s \in Slots |-> "unbound"]
  /\ layout' = {}
  /\ Advance
  /\ UNCHANGED <<cfg, dev, cmd, mem, mesh, accel, bindings, writes, pipe, host>>

\* raytracingBuilder.destroy(): every BLAS and the TLAS.
BuilderDestroy ==
  /\ At("L286")
  /\ builder' = IF builder = "setup" THEN "destroyed" ELSE "misused"
  /\ blas' = [i \in 1..Len(blas) |-> "destroyed"]
  /\ tlas' = "destroyed"
  /\ Advance
  /\ UNCHANGED <<cfg, dev, cmd, mem, mesh, addr, blases, instances, job, called,
                 returned, lastError, desc, pipe, host>>

DestroySite(b) ==
  CASE b = "vertexBuffer" -> "L287"
    [] b = "indexBuffer"  -> "L288"
    [] OTHER              -> "L290"

\* allocator.destroy(b)
DestroyBuffer ==
  /\ \E b \in Buffers :
       /\ At(DestroySite(b))
       /\ buf' = [buf EXCEPT ![b].state = Release(@, "destroyed")]
  /\ Advance
  /\ UNCHANGED <<cfg, dev, cmd, staging, stagingReleases, mesh, accel, desc, pipe, host>>

\* vkDestroyCommandPool(context, cmdPool, nullptr)
DestroyCommandPool ==
  /\ At("L289")
  /\ cmdPool' = Release(cmdPool, "destroyed")
  /\ Advance
  /\ UNCHANGED <<cfg, context, allocator, cmd, mem, mesh, accel, desc, pipe, host>>

\* allocator.deinit()
AllocatorDeinit ==
  /\ At("L291")
  /\ allocator' = Release(allocator, "deinit")
  /\ Advance
  /\ UNCHANGED <<cfg, context, cmdPool, cmd, mem, mesh, accel, desc, pipe, host>>

\* context.deinit()
ContextDeinit ==
  /\ At("L292")
  /\ context' = Release(context, "deinit")
  /\ Advance
  /\ UNCHANGED <<cfg, allocator, cmdPool, cmd, mem, mesh, accel, desc, pipe, host>>

\* main() falls off its end.
MainReturn ==
  /\ status = "running"
  /\ fpc = "main"
  /\ pc = Len(MainBody) + 1
  /\ status' = "exited"
  /\ UNCHANGED <<pc, fpc, arg, cfg, dev, cmd, mem, mesh, accel, desc, pipe, host>>

(* ------------------------------ the device ----------------------------- *)
\* What one command does to device memory and to the acceleration structures.
\* m is [buf, blas, tlas].
Effect(m, k) ==
  CASE k.op = "CopyBuffer" ->
         [m EXCEPT !.buf[k.a].data =
            IF staging[k.a] = "live" THEN "uploaded" ELSE "garbage"]
    [] k.op = "BuildBlas" ->
         [m EXCEPT !.blas = [i \in 1..Len(m.blas) |->
            IF m.blas[i] = "created" THEN "built" ELSE m.blas[i]]]
    [] k.op = "CompactBlas" ->
         [m EXCEPT !.blas = [i \in 1..Len(m.blas) |->
            IF m.blas[i] = "built" THEN "compacted" ELSE m.blas[i]]]
    [] k.op = "BuildTlas" ->
         [m EXCEPT !.tlas = IF m.tlas = "created" THEN "built" ELSE m.tlas]
    [] k.op = "Dispatch" ->
         IF descSet[BINDING_IMAGEDATA] \in Buffers
           THEN [m EXCEPT !.buf[descSet[BINDING_IMAGEDATA]].data = "shaderWritten"]
           ELSE m
    [] k.op = "PipelineBarrier" ->
         IF k.a = "COMPUTE_SHADER" /\ k.b = "HOST"
            /\ k.c = "SHADER_WRITE" /\ k.d = "HOST_READ"
           THEN [m EXCEPT !.buf = [b \in Buffers |->
                   IF m.buf[b].data = "shaderWritten"
                     THEN [m.buf[b] EXCEPT !.data = "hostVisible"]
                     ELSE m.buf[b]]]
           ELSE m
    [] OTHER -> m

RECURSIVE Execute(_, _)
Execute(m, ks) ==
  IF ks = <<>> THEN m ELSE Execute(Effect(m, Head(ks)), Tail(ks))

\* The device runs the command buffer at the head of the queue to completion.
DeviceExecute ==
  /\ context = "live"
  /\ queue # <<>>
  /\ LET c == Head(queue)
         m == Execute([buf |-> buf, blas |-> blas, tlas |-> tlas], cmds[c])
     IN /\ buf' = m.buf
        /\ blas' = m.blas
        /\ tlas' = m.tlas
        /\ ctx' = [ctx EXCEPT ![c] = IF @ = "pending" THEN "completed" ELSE @]
        /\ executed' = executed \cup {c}
  /\ queue' = Tail(queue)
  /\ UNCHANGED <<ctl, cfg, dev, cmds, staging, stagingReleases, mesh, addr, blases,
                 instances, builder, job, called, returned, lastError, desc, pipe, host>>

(* -------------------------------- Next --------------------------------- *)
Next ==
  \/ ContextInit \/ AssertCapabilities \/ AllocatorInit \/ CreateOutputBuffer
  \/ ParseFromFile \/ AssertReaderValid \/ CopyVertices \/ AssertOneShape
  \/ CollectIndices \/ CreateCommandPool
  \/ CallAllocateAndBegin \/ VkAllocateCommandBuffers \/ VkBeginCommandBuffer
  \/ CallEndSubmitWaitAndFree \/ VkEndCommandBuffer \/ VkQueueSubmit
  \/ VkQueueWaitIdle \/ VkFreeCommandBuffers
  \/ CreateStagedBuffer \/ FinalizeAndReleaseStaging
  \/ GetBufferDeviceAddress \/ DescribeBlas \/ BuilderSetup
  \/ CallBuildBlas \/ MakeInstance \/ CallBuildTlas \/ BuilderValidate
  \/ BuilderAllocate \/ BuilderBegin \/ BuilderRecord \/ BuilderEnd
  \/ BuilderSubmit \/ BuilderWait \/ BuilderFree
  \/ ContainerConstruct \/ AddBinding \/ InitContainerPart \/ MakeWrite
  \/ UpdateDescriptorSets \/ CreateShaderModule \/ CreateComputePipeline
  \/ CmdBindPipeline \/ CmdBindDescriptorSets \/ CmdDispatch \/ CmdPipelineBarrier
  \/ MapOutput \/ WriteHdr \/ UnmapOutput
  \/ DestroyPipeline \/ DestroyShaderModule \/ ContainerDeinit \/ BuilderDestroy
  \/ DestroyBuffer \/ DestroyCommandPool \/ AllocatorDeinit \/ ContextDeinit
  \/ MainReturn
  \/ DeviceExecute

Spec == Init /\ [][Next]_vars

\* The host thread keeps running main() and the device keeps running what
\* was submitted to it: a wait on the queue does return.
SpecFair == Spec /\ WF_vars(Next)


(* ------------------------ the builder on its own ----------------------- *)
\* The builder driven by any caller: any number of bottom-level builds, then
\* one top-level build over any instance list.
InitBuilder == Init /\ ndebug = FALSE

NotBuilder == <<ctl, cfg, dev, cmd, mem, mesh, addr, blases, job, desc, pipe, host>>

Builder_Setup ==
  /\ builder = "none"
  /\ builder' = "setup"
  /\ UNCHANGED <<instances, blas, tlas, called, returned, lastError, NotBuilder>>

\* buildBottomLevel: synchronous, the new BLAS is built (and compacted) when
\* the call returns.
Builder_BuildBottomLevel ==
  /\ builder = "setup"
  /\ "buildTlas" \notin called
  /\ Len(blas) < MaxBlas
  /\ blas' = Append(blas, "compacted")
  /\ called' = called \cup {"buildBlas"}
  /\ returned' = returned \cup {"buildBlas"}
  /\ UNCHANGED <<instances, builder, tlas, lastError, NotBuilder>>

\* Instance lists of a given length, each instance being the blasId it names.
InstanceLists(n) == [1..n -> 0..MaxBlas]

\* buildTopLevel(instances, flags): validates, then builds.
Builder_BuildTopLevel ==
  /\ builder = "setup"
  /\ "buildTlas" \notin called
  /\ \E n \in 0..MaxInstances : \E insts \in InstanceLists(n) :
       /\ instances' = insts
       /\ IF InstancesValid(insts, blas)
            THEN /\ tlas' = "built"
                 /\ returned' = returned \cup {"buildTlas"}
                 /\ UNCHANGED lastError
            ELSE /\ lastError' = "DanglingInstanceReference"
                 /\ UNCHANGED <<tlas, returned>>
  /\ called' = called \cup {"buildTlas"}
  /\ UNCHANGED <<builder, blas, NotBuilder>>

NextBuilder ==
  \/ Builder_Setup
  \/ Builder_BuildBottomLevel
  \/ Builder_BuildTopLevel

SpecBuilder == InitBuilder /\ [][NextBuilder]_vars

(* --------------------- the grid computation on its own ---------------- *)
\* The dispatch arguments computed for any image size, the largest 32-bit
\* sizes included, and any workgroup size.
GridSizes ==
  {U32(n) : n \in 0..GridSpan} \cup {U32(n) : n \in RenderWidths \cup RenderHeights}
    \cup {<<65535, 65535 - k>> : k \in 0..GridSpan}

TileSizes == {1, 3, WORKGROUP_HEIGHT, WORKGROUP_WIDTH}

InitGrid ==
  /\ InitProgram
  /\ ndebug = FALSE
  /\ renderWidth \in GridSizes
  /\ renderHeight \in GridSizes

Grid_Dispatch ==
  /\ cmds["cmdBuffer"] = <<>>
  /\ \E tw \in TileSizes, th \in TileSizes :
       Record("cmdBuffer", DispatchCommand(renderWidth, renderHeight, tw, th))
  /\ UNCHANGED <<ctl, cfg, dev, ctx, queue, executed, mem, mesh, accel, desc, pipe, host>>

NextGrid == Grid_Dispatch

SpecGrid == InitGrid /\ [][NextGrid]_vars

(* ======================================================================= *)
(*                               Properties                                *)
(* ======================================================================= *)
HasOp(c, op) == \E i \in 1..Len(cmds[c]) : cmds[c][i].op = op

\* A barrier from shader writes in the compute stage to host reads in the
\* host stage.
IsVisibilityBarrier(k) ==
  /\ k.op = "PipelineBarrier"
  /\ k.a = "COMPUTE_SHADER" /\ k.b = "HOST"
  /\ k.c = "SHADER_WRITE" /\ k.d = "HOST_READ"

\* Every dispatch recorded into c is followed, in c, by a visibility barrier.
BarrierAfterEveryDispatch(c) ==
  \A i \in 1..Len(cmds[c]) :
    cmds[c][i].op = "Dispatch" =>
      \E j \in (i + 1)..Len(cmds[c]) : IsVisibilityBarrier(cmds[c][j])

\* The host has entered EndSubmitWaitAndFreeCommandBuffer for c, or c has
\* been ended already.
AtOrPastSubmitStep(c) ==
  \/ ctx[c] \in {"executable", "pending", "completed", "freed"}
  \/ (arg = c /\ fpc \in {"L37", "L42", "L43", "L44"})

\* c's submit-and-wait has returned: the device ran it and it was released.
Finished(c) == ctx[c] = "freed" /\ c \in executed /\ c \notin Range(queue)

\* C1: whenever a command buffer holding a dispatch reaches the end/submit
\* step, a shader-write -> host-read barrier (compute stage -> host stage) has
\* been recorded in it after the dispatch.
C1_BarrierBeforeSubmit ==
  \A c \in Contexts : AtOrPastSubmitStep(c) => BarrierAfterEveryDispatch(c)

C1_Witness ==
  /\ ctx["cmdBuffer"] = "pending"
  /\ HasOp("cmdBuffer", "Dispatch")

\* C2: while the output buffer is mapped, and once the host has read it, the
\* dispatch command buffer holds the barrier and its submit-and-wait has
\* returned (the device is done with it); what the host read is the
\* shader's output made visible to the host.
C2_ReadAfterBarrierAndWait ==
  ("buffer" \in mapped \/ hostRead # "none") =>
    /\ HasOp("cmdBuffer", "Dispatch")
    /\ BarrierAfterEveryDispatch("cmdBuffer")
    /\ Finished("cmdBuffer")
    /\ buf["buffer"].data = "hostVisible"
    /\ hostRead \in {"none", "hostVisible"}

C2_Witness == hostRead = "hostVisible"

\* A command buffer that is begun (allocated) and not yet released.
Open(c) == ctx[c] \in {"allocated", "recording", "executable", "pending", "completed"}

\* C3: at most one command buffer is begun-but-not-released at any time, and
\* at most one submission is in flight on the queue.
C3_OneContextAtATime ==
  /\ Cardinality({c \in Contexts : Open(c)}) <= 1
  /\ Len(queue) <= 1

C3_Witness ==
  /\ ctx["cmdBuffer"] = "pending"
  /\ ctx["uploadCmdBuffer"] = "freed"
  /\ \A c \in BuilderContexts : ctx[c] = "freed"

\* The steps of a command buffer's life, in order.
LifecycleSteps ==
  { <<"none", "allocated">>, <<"allocated", "recording">>,
    <<"recording", "executable">>, <<"executable", "pending">>,
    <<"pending", "completed">>, <<"completed", "freed">> }

\* C4: a command buffer only ever moves one step along allocate, begin, end,
\* submit, device-complete, release; commands are recorded only while it is
\* recording; nothing happens to it after release.
C4_Lifecycle ==
  [][\A c \in Contexts :
       /\ (ctx'[c] # ctx[c]) => (<<ctx[c], ctx'[c]>> \in LifecycleSteps)
       /\ (cmds'[c] # cmds[c]) => (ctx[c] = "recording" /\ ctx'[c] = "recording")]_vars

C4_Witness == \A c \in Contexts : ctx[c] = "freed" /\ cmds[c] # <<>>

\* C5: every use of the vertex or index buffer (address query, descriptor
\* write, dispatch, and the BLAS build that reads them) comes after the
\* upload command buffer's submit-and-wait returned, with the copy done.
C5_UploadBeforeUse ==
  /\ \A u \in uses :
       u[1] \in Uploaded =>
         (Finished("uploadCmdBuffer") /\ buf[u[1]].data = "uploaded")
  /\ (ctx["blasBuild"] # "none") =>
       (Finished("uploadCmdBuffer") /\ \A b \in Uploaded : buf[b].data = "uploaded")

C5_Witness ==
  /\ <<"vertexBuffer", "address">> \in uses
  /\ <<"vertexBuffer", "descriptor">> \in uses
  /\ <<"indexBuffer", "dispatch">> \in uses

\* C6: finalizeAndReleaseStaging is called at most once, exactly once in a
\* run that completes, only after the upload's submit-and-wait returned, and
\* no copy that is recorded but not yet executed reads released staging memory.
C6_StagingReleasedOnceAfterUpload ==
  /\ stagingReleases <= 1
  /\ (status = "exited") => (stagingReleases = 1)
  /\ (stagingReleases >= 1) => Finished("uploadCmdBuffer")
  /\ \A b \in Uploaded : (staging[b] = "released") => (buf[b].data = "uploaded")
  /\ \A c \in Contexts :
       (c \notin executed) =>
         \A i \in 1..Len(cmds[c]) :
           (cmds[c][i].op = "CopyBuffer") => (staging[cmds[c][i].a] = "live")

C6_Witness ==
  /\ stagingReleases = 1
  /\ \A b \in Uploaded : staging[b] = "released"

\* The command buffers a builder call submits.
CallContexts(call) ==
  IF call = "buildTlas" THEN {"tlasBuild"}
  ELSE IF "ALLOW_COMPACTION" \in BlasBuildFlags THEN {"blasBuild", "blasCompact"}
  ELSE {"blasBuild"}

\* C7: buildTlas is entered only after buildBlas has returned; a build call
\* has returned only when the device finished every submission it made, the
\* compaction included; the TLAS build never starts with a BLAS still being
\* built or compacted.
C7_BlasBeforeTlas ==
  /\ ("buildTlas" \in called) => ("buildBlas" \in returned)
  /\ \A call \in returned : \A c \in CallContexts(call) : Finished(c)
  /\ ("buildBlas" \in returned) =>
       \A i \in 1..Len(blas) : blas[i] \in {"compacted", "destroyed"}
  /\ ("buildTlas" \in called) =>
       /\ \A i \in 1..Len(blas) : blas[i] \notin {"created", "built"}
       /\ \A c \in CallContexts("buildBlas") : c \notin Range(queue)

C7_Witness ==
  /\ "buildTlas" \in returned
  /\ tlas = "built"
  /\ HasOp("blasCompact", "CompactBlas")

\* The number of BLAS built so far.
BlasBuilt == Cardinality({i \in 1..Len(blas) : blas[i] = "compacted"})

\* C8: a top-level build succeeds, producing the TLAS, exactly when every
\* instance's BLAS index is below the number of BLAS built; otherwise it
\* fails with DanglingInstanceReference and produces no TLAS.
C8_TopLevelValidatesInstances ==
  ("buildTlas" \in called) =>
    IF \A i \in 1..Len(instances) : instances[i] < BlasBuilt
      THEN tlas = "built" /\ lastError = "none" /\ "buildTlas" \in returned
      ELSE tlas = "none" /\ lastError = "DanglingInstanceReference"
           /\ "buildTlas" \notin returned

C8_Witness ==
  /\ lastError = "DanglingInstanceReference"
  /\ BlasBuilt >= 2
  /\ \E i \in 1..Len(instances) : instances[i] < BlasBuilt
  /\ \E i \in 1..Len(instances) : instances[i] = BlasBuilt

C8_WitnessSuccess ==
  /\ tlas = "built"
  /\ Len(instances) >= 2
  /\ BlasBuilt >= 2

TlasLive == tlas \in {"created", "built"}

BlasLive(i) == i \in 1..Len(blas) /\ blas[i] \in {"created", "built", "compacted"}

ReferencedBlasLive == \A i \in 1..Len(instances) : BlasLive(instances[i] + 1)

\* C9: while the TLAS is live every BLAS its instances reference is live, and
\* a command buffer holding a dispatch is being recorded, ended or in flight
\* only while the TLAS and the BLAS it references are live.
C9_TlasKeepsBlasAlive ==
  /\ TlasLive => ReferencedBlasLive
  /\ \A c \in Contexts :
       (HasOp(c, "Dispatch") /\ ctx[c] \in {"recording", "executable", "pending"}) =>
         (TlasLive /\ ReferencedBlasLive)

C9_Witness ==
  /\ ctx["cmdBuffer"] = "pending"
  /\ HasOp("cmdBuffer", "Dispatch")
  /\ tlas = "built"
  /\ descSet[BINDING_TLAS] = "tlas"

\* A resource the descriptor set may reference has not been destroyed.
Live(r) ==
  CASE r \in Buffers -> buf[r].state = "live"
    [] r = "tlas"    -> TlasLive
    [] OTHER         -> FALSE

\* C10: the builder's structures are destroyed only after the descriptor set
\* container is deinitialised, a buffer only after the builder's structures,
\* the device context only after everything else; the descriptor set never
\* references a destroyed resource.
C10_TeardownOrder ==
  /\ (builder = "destroyed") => (container = "deinit")
  /\ \A b \in Buffers : (buf[b].state = "destroyed") => (builder = "destroyed")
  /\ (context = "deinit") =>
       /\ \A b \in Buffers : buf[b].state = "destroyed"
       /\ builder = "destroyed" /\ container = "deinit"
       /\ allocator = "deinit" /\ cmdPool = "destroyed"
       /\ pipeline = "destroyed" /\ shaderModule = "destroyed"
  /\ \A s \in Slots : (descSet[s] # "unbound") => Live(descSet[s])

C10_Witness ==
  /\ context = "deinit"
  /\ status = "exited"

\* The buffers a recorded command makes the device touch.
References(k) ==
  CASE k.op = "CopyBuffer" -> {k.a}
    [] k.op = "BuildBlas"  -> UNION {{blases[i].vertexData, blases[i].indexData} :
                                       i \in 1..Len(blases)}
    [] k.op = "Dispatch"   -> BoundBuffers
    [] OTHER               -> {}

\* The buffers referenced by commands recorded and not yet run by the device.
RecordedReferences ==
  UNION {UNION {References(cmds[c][i]) : i \in 1..Len(cmds[c])} :
           c \in {x \in Contexts : ctx[x] \in {"recording", "executable", "pending"}}}

\* C11: no buffer (output, vertex, index) is ever destroyed twice or destroyed
\* without having been created; a run that completes has destroyed each of
\* the three; a destroyed buffer is not mapped, not bound in the descriptor
\* set, and not referenced by a command that is recorded and not yet executed.
C11_BuffersDestroyedOnce ==
  /\ \A b \in Buffers : buf[b].state # "misused"
  /\ (status = "exited") => \A b \in Buffers : buf[b].state = "destroyed"
  /\ \A b \in Buffers :
       (buf[b].state = "destroyed") =>
         /\ b \notin mapped
         /\ b \notin BoundBuffers
         /\ b \notin RecordedReferences

C11_Witness ==
  /\ status = "exited"
  /\ \A b \in Buffers : buf[b].state = "destroyed"
  /\ <<"buffer", "map">> \in uses
  /\ HasOp("cmdBuffer", "Dispatch")

SlotTable ==
  [s \in 0..3 |-> IF s = 1 THEN "ACCELERATION_STRUCTURE" ELSE "STORAGE_BUFFER"]

\* Everything main() could write into a descriptor.
Resources == Buffers \cup {"tlas"}

BoundSlots == {s \in Slots : descSet[s] # "unbound"}

\* The slots main() has made a write for.
WrittenSlots == {i \in 0..3 : writes[i] # NoWrite}

C14_Order ==
  /\ (layout # {}) => ({b[1] : b \in bindings} = Slots)
  /\ (WrittenSlots # {} /\ container = "live") => ("layout" \in layout)
  /\ BoundSlots \in {{}, Slots}
  /\ (BoundSlots # {}) => (WrittenSlots = Slots)
  /\ \A c \in Contexts :
       HasOp(c, "Dispatch") =>
         /\ WrittenSlots = Slots
         /\ (ctx[c] \in {"recording", "executable", "pending"}) => (BoundSlots = Slots)

\* C14: every slot is declared before the layout is initialised, the layout
\* before any write is made, and all four writes before the one
\* vkUpdateDescriptorSets call, which takes the descriptor set from no slot
\* bound to all four bound in a single step; the set only changes again when
\* the container is deinitialised; a dispatch is recorded, and runs, against
\* all four slots bound, never against a proper subset.
C14_DeclareFinalizeBindCommit ==
  /\ []C14_Order
  /\ [][(descSet' # descSet) =>
          \/ (BoundSlots = {} /\ BoundSlots' = Slots /\ container = "live")
          \/ (BoundSlots' = {} /\ container' = "deinit")]_vars

C14_Witness ==
  /\ ctx["cmdBuffer"] = "pending"
  /\ HasOp("cmdBuffer", "Dispatch")
  /\ BoundSlots = Slots
  /\ layout = {"layout", "pool", "pipeLayout"}

\* The least g with g * t >= u, for a 32-bit unsigned u (as halves) and
\* 0 < t < 2^15: the quotient by long division, one more when t does not
\* divide u.
CeilDiv(u, t) ==
  LET r  == ((u[1] % t) * 65536 + u[2]) % t
      lo == ((u[1] % t) * 65536 + u[2]) \div t
      up == IF r = 0 THEN lo ELSE lo + 1
  IN <<(u[1] \div t) + (up \div 65536), up % 65536>>

\* The dispatches recorded so far.
Dispatches ==
  UNION {{cmds[c][i] : i \in {j \in 1..Len(cmds[c]) : cmds[c][j].op = "Dispatch"}} :
           c \in Contexts}

\* u + t - 1 is below 2^32.
SumFits(u, t) == u[1] < 65535 \/ u[2] + t - 1 <= 65535

\* C15 as stated: for every image size and workgroup size the dispatched
\* grid is the exact ceiling division, with one group in Z.
C15_GridIsCeiling ==
  \A k \in Dispatches :
    /\ k.a = CeilDiv(renderWidth, k.d[1])
    /\ k.b = CeilDiv(renderHeight, k.d[2])
    /\ k.c = 1

\* C15, amended: the dispatched grid is the exact ceiling division, with one
\* group in Z, for every image size and workgroup size whose sum
\* size + workgroup - 1 stays below 2^32; 800 x 600 in 16 x 8 workgroups gives
\* (50, 75) and 801 x 600 gives (51, 75).
C15_GridIsCeilingWithoutWrap ==
  \A k \in Dispatches :
    /\ SumFits(renderWidth, k.d[1]) => (k.a = CeilDiv(renderWidth, k.d[1]))
    /\ SumFits(renderHeight, k.d[2]) => (k.b = CeilDiv(renderHeight, k.d[2]))
    /\ k.c = 1
    /\ (k.d = <<16, 8>> /\ renderHeight = U32(600)) =>
         /\ (renderWidth = U32(800)) => (k.a = U32(50) /\ k.b = U32(75))
         /\ (renderWidth = U32(801)) => (k.a = U32(51) /\ k.b = U32(75))

C15_Witness ==
  /\ renderWidth = U32(801)
  /\ renderHeight = U32(600)
  /\ \E k \in Dispatches : k.d = <<16, 8>> /\ k.a = U32(51) /\ k.b = U32(75)

\* main() has gone past statement l.
Past(l) == pc > IndexOf(MainBody, l)

\* C16: a stage that finds an error ends the run there: main() never goes
\* past the capability check with a capability missing, past the reader
\* check with an invalid reader, or past the shape check with a shape count
\* other than one, and so never crashes or exits normally after an error.
C16_ErrorsAreFatal ==
  /\ Past("L70") => (asFeature /\ rayQuery)
  /\ Past("L92") => readerValid
  /\ Past("L95") => (nShapes = 1)
  /\ status # "crashed"

\* C17: the allocator is initialised, and anything is allocated or created
\* on the device, only with both capabilities present.
C17_NoAllocationWithoutCapabilities ==
  (\/ allocator # "none"
   \/ cmdPool # "none"
   \/ \E b \in Buffers : buf[b].state # "none") => (asFeature /\ rayQuery)

\* The bytes of its buffer a write exposes to the shader.
ExposedBytes(w) ==
  IF w.range = VK_WHOLE_SIZE THEN buf[w.resource].size - w.offset ELSE w.range

\* C18: the output buffer is created with width * height * 3 * 4 bytes and
\* the write for slot 0 exposes that many bytes from offset 0; each uploaded
\* buffer has its host array's element count times 4 bytes, and the write
\* for its slot (2 vertices, 3 indices) exposes the whole buffer from offset 0.
C18_BufferSizes ==
  /\ (buf["buffer"].state # "none") =>
       (buf["buffer"].size = Value(renderWidth) * Value(renderHeight) * 3 * 4)
  /\ (writes[0] # NoWrite) =>
       /\ writes[0].resource = "buffer"
       /\ writes[0].offset = 0
       /\ writes[0].range = Value(renderWidth) * Value(renderHeight) * 3 * 4
       /\ ExposedBytes(writes[0]) = buf["buffer"].size
  /\ (buf["vertexBuffer"].state # "none") => (buf["vertexBuffer"].size = objVertices * 4)
  /\ (buf["indexBuffer"].state # "none") => (buf["indexBuffer"].size = objIndices * 4)
  /\ \A s \in {2, 3} :
       (writes[s] # NoWrite) =>
         /\ writes[s].resource = (IF s = 2 THEN "vertexBuffer" ELSE "indexBuffer")
         /\ writes[s].offset = 0
         /\ writes[s].range = VK_WHOLE_SIZE
         /\ ExposedBytes(writes[s]) = buf[writes[s].resource].size

C18_Witness ==
  /\ \A s \in Slots : descSet[s] # "unbound"
  /\ renderWidth = U32(800) /\ renderHeight = U32(600)
  /\ buf["buffer"].size = 5760000
  /\ writes[0].range = 5760000
  /\ buf["vertexBuffer"].size = 12
  /\ buf["indexBuffer"].size = 12

\* C19: the geometry main() describes stays inside the uploaded data: with F
\* floats and I indices uploaded, maxVertex has not wrapped and is at most
\* F / 3 - 1, so (maxVertex + 1) * vertexStride is within the vertex
\* buffer's size, and primitiveCount * 3 is at most I.
C19_GeometryInsideUpload ==
  \A i \in 1..Len(blases) :
    /\ blases[i].maxVertex[1] = 0
    /\ blases[i].maxVertex[2] <= (objVertices \div 3) - 1
    /\ (blases[i].maxVertex[2] + 1) * blases[i].vertexStride <= buf["vertexBuffer"].size
    /\ blases[i].primitiveCount[1] = 0
    /\ blases[i].primitiveCount[2] * 3 <= objIndices

\* The part of C19 about the index data alone.
C19_PrimitivesInsideUpload ==
  \A i \in 1..Len(blases) :
    /\ blases[i].primitiveCount[1] = 0
    /\ blases[i].primitiveCount[2] * 3 <= objIndices

\* Every object main() creates has been released, none of them twice.
AllReleased ==
  /\ cmdPool = "destroyed"
  /\ \A c \in Contexts : ctx[c] = "freed"
  /\ \A b \in Buffers : buf[b].state = "destroyed"
  /\ \A b \in Uploaded : staging[b] = "released"
  /\ builder = "destroyed"
  /\ blas # <<>> /\ \A i \in 1..Len(blas) : blas[i] = "destroyed"
  /\ tlas = "destroyed"
  /\ container = "deinit"
  /\ shaderModule = "destroyed"
  /\ pipeline = "destroyed"
  /\ allocator = "deinit"
  /\ context = "deinit"

\* No release call was ever made on something already released or never made.
NoneMisused ==
  /\ "misused" \notin {cmdPool, builder, container, shaderModule, pipeline,
                        allocator, context}
  /\ \A b \in Buffers : buf[b].state # "misused"

\* Every stage has run, and run once.
EachStageOnce ==
  /\ pc = Len(MainStatements) + 1
  /\ stagingReleases = 1
  /\ called = {"buildBlas", "buildTlas"} /\ returned = called
  /\ \A c \in Contexts : Len(cmds[c]) >= 1 /\ c \in executed
  /\ Cardinality(Dispatches) = 1 /\ Len(cmds["cmdBuffer"]) = 4
  /\ buf["buffer"].maps = 1 /\ hostRead # "none"

C20_Safety ==
  /\ NoneMisused
  /\ (status = "exited") => (EachStageOnce /\ AllReleased /\ queue = <<>>)
  /\ (cmdPool = "destroyed") => \A c \in MainContexts : ctx[c] = "freed"

\* C20: with the host and the device both making progress the run ends; main()
\* only ever moves forward, one statement at a time, with no statement named
\* twice; a run that returns from main() has run every stage once and has
\* released everything it created (command pool, every command buffer, the
\* three buffers and the staging memory, BLAS and TLAS, descriptor container,
\* shader module, pipeline, allocator, device context), nothing twice, and
\* the command pool only after both of main()'s command buffers were freed.
C20_TerminatesAndReleases ==
  /\ <>(status # "running")
  /\ []C20_Safety
  /\ [][pc' \in {pc, pc + 1}]_vars
  /\ [](Cardinality(Range(MainBody)) = Len(MainBody))

C20_Witness ==
  /\ status = "exited"
  /\ AllReleased
  /\ EachStageOnce

=============================================================================
